---- MODULE Spec2Model ----
(***************************************************************************)
(* The Parakeet sidecar: a worker that reads one JSON command per line on  *)
(* stdin, drives a ModelManager owning at most one loaded model, and       *)
(* writes one JSON response per line on stdout.                            *)
(*                                                                         *)
(* One step of the model is one iteration of event_loop (main.py), i.e.    *)
(* the complete handling of one input line, or one of the ways run() ends. *)
(* Signals are delivered while the loop is blocked reading stdin.          *)
(***************************************************************************)
EXTENDS Integers, Sequences, FiniteSets, TLC

VARIABLES
    cur,        \* ModelManager._current: <<>> (None) or <<LoadedModel>>
    out,        \* stdout: the responses written, each with the line that caused it
    read,       \* for every line consumed from stdin, whether it was non-blank
    exited,     \* <<>> while run() is running, <<status>> once the process has exited
    nextId,     \* identity given to the next object from_pretrained returns
    last,       \* the step just taken: the line, the slot before it, its side effects
                \* in order, and the responses it wrote
    call,       \* the transcribe call under examination: what goes in, what the
                \* parameter builder and the result normaliser make of it
    pc,         \* for every thread calling the ModelManager, where it is
    lock        \* ModelManager._lock: the thread that holds it, 0 when it is free

vars == <<cur, out, read, exited, nextId, last, call, pc, lock>>

\* Number of lines the host writes to stdin before closing it.
MaxLines == 3

\* Number of threads that call one ModelManager at the same time.
MaxCallers == 2

\* Number of models from_pretrained has returned after which the concurrent
\* callers start no further load.
MaxModels == 2

(***************************************************************************)
(* Values.  Optional[T] is a sequence of length at most one; a JSON field  *)
(* is a record saying whether the key is present, null, or has a value.    *)
(* A path string is the sequence of its "/"-separated components.          *)
(***************************************************************************)
None == <<>>
Some(v) == <<v>>

AbsentS == [p |-> "absent", v |-> ""]
NullS == [p |-> "null", v |-> ""]
Str(s) == [p |-> "val", v |-> s]
AbsentN == [p |-> "absent", v |-> 0]
NullN == [p |-> "null", v |-> 0]
Num(n) == [p |-> "val", v |-> n]
AbsentP == [p |-> "absent", v |-> <<>>]
PathStr(s) == [p |-> "val", v |-> s]
AbsentB == [p |-> "absent", v |-> FALSE]
Bool(b) == [p |-> "val", v |-> b]

\* pathlib.Path(s): "." components and repeated or trailing separators vanish.
PathOf(s) == SelectSeq(s, LAMBDA c : c \notin {".", ""})

\* bool(s) of an Optional[str] holding a path string: None and "" are falsy.
Truthy(opt) == opt # None /\ opt[1] # <<>>

\* The file system the worker runs in: two model directories and one audio file.
ExistingPaths == {<<"a">>, <<"b">>, <<"f">>}

PathExists(p) == p \in ExistingPaths

\* Exception classes that external collaborators raise, as handle_command sees them.
ExcKinds == {"FileNotFoundError", "RuntimeError", "Exception"}

\* An exception: its class, str(exc), and whether exc.errors() is JSON-serialisable.
Exc(kind, msg, ser) == [kind |-> kind, msg |-> msg, ser |-> ser]

\* A side effect: what happened, on which model object, with which argument, and
\* whether the slot held a model right after it.
Ev(e, h, arg, loaded) == [ev |-> e, h |-> h, arg |-> arg, loaded |-> loaded]

(***************************************************************************)
(* messages.py: responses.                                                 *)
(***************************************************************************)
NoPayload == [model_id |-> "", precision |-> "", attention |-> ""]
NoStatus == [loaded_model |-> None, model_path |-> None, precision |-> None,
             attention |-> None]

BaseResponse ==
    [type |-> "", command |-> "", code |-> "", message |-> "",
     payload |-> NoPayload, status |-> NoStatus, ser |-> TRUE]

OkResponse(command, payload) ==
    [BaseResponse EXCEPT !.type = "ok", !.command = command, !.payload = payload]

\* ser: whether orjson can encode the response (details may hold exc.errors()).
ErrorResponse(code, message, ser) ==
    [BaseResponse EXCEPT !.type = "error", !.code = code, !.message = message,
                         !.ser = ser]

StatusResponse(status) ==
    [BaseResponse EXCEPT !.type = "status", !.status = status]

TranscriptionResponse(ser) ==
    [BaseResponse EXCEPT !.type = "transcription", !.ser = ser]

(***************************************************************************)
(* Input lines.  A line is blank, not JSON at all, a JSON value that is    *)
(* not an object, or a JSON object with some of the keys the schemas read. *)
(* hasType is what Python's `"type" in payload` gives for the decoded      *)
(* value: a key of an object, an element of an array, a substring of a     *)
(* string.                                                                 *)
(***************************************************************************)
BaseLine ==
    [shape |-> "object", hasType |-> TRUE, type |-> "status",
     model_id |-> AbsentS, local_path |-> AbsentP, cache_dir |-> AbsentP,
     precision |-> AbsentS, attention |-> AbsentS,
     local_attention_context |-> AbsentN, chunk_duration |-> AbsentN,
     overlap_duration |-> AbsentN, eager_unload |-> AbsentB,
     audio_path |-> AbsentP, language |-> AbsentS,
     translate_to_english |-> AbsentB, prompt |-> AbsentS,
     use_word_timestamps |-> AbsentB]

Obj(type) == [BaseLine EXCEPT !.type = type]
NonObj(shape, hasType) == [BaseLine EXCEPT !.shape = shape, !.hasType = hasType, !.type = ""]

BlankLines == {NonObj("blank", FALSE)}

MalformedLines ==
    {NonObj("malformed", FALSE), NonObj("null", FALSE), NonObj("number", FALSE),
     NonObj("string", FALSE), NonObj("string", TRUE),
     NonObj("array", FALSE), NonObj("array", TRUE),
     [BaseLine EXCEPT !.hasType = FALSE, !.type = ""], Obj("bogus")}

LoadLine(id) == [Obj("load_model") EXCEPT !.model_id = Str(id)]

LoadLines ==
    {LoadLine("m1"), LoadLine("m2"),
     [LoadLine("m1") EXCEPT !.precision = Str("fp32")],
     [LoadLine("m1") EXCEPT !.attention = Str("local")],
     [LoadLine("m1") EXCEPT !.eager_unload = Bool(TRUE)],
     [LoadLine("m1") EXCEPT !.local_path = PathStr(<<"a">>)],
     [LoadLine("m1") EXCEPT !.local_path = PathStr(<<"a", "">>)],
     [LoadLine("m1") EXCEPT !.local_path = PathStr(<<"a">>), !.eager_unload = Bool(TRUE)],
     [LoadLine("m1") EXCEPT !.local_path = PathStr(<<>>)],
     [LoadLine("m1") EXCEPT !.local_path = PathStr(<<"x">>)],
     [LoadLine("m1") EXCEPT !.cache_dir = PathStr(<<"b", ".">>)],
     [LoadLine("m1") EXCEPT !.precision = NullS],
     [LoadLine("m1") EXCEPT !.chunk_duration = NullN, !.overlap_duration = Num(0)],
     [LoadLine("m1") EXCEPT !.local_attention_context = Num(0)],
     [LoadLine("m1") EXCEPT !.precision = Str("int8")],
     Obj("load_model")}

TranscribeLine(path) == [Obj("transcribe") EXCEPT !.audio_path = PathStr(path)]

TranscribeLines ==
    {TranscribeLine(<<"f">>), TranscribeLine(<<"g">>), TranscribeLine(<<>>), Obj("transcribe")}

UnloadLines == {Obj("unload_model")}
StatusLines == {Obj("status")}
ShutdownLines == {Obj("shutdown")}

Lines ==
    BlankLines \cup MalformedLines \cup LoadLines \cup TranscribeLines
        \cup UnloadLines \cup StatusLines \cup ShutdownLines

(***************************************************************************)
(* messages.py: request schemas and parse_command.                         *)
(***************************************************************************)
DefaultLocalAttentionContext == 256
DefaultChunkDuration == 120
DefaultOverlapDuration == 15

Precisions == {"bf16", "fp32"}
Attentions == {"full", "local"}

\* An Optional field of a schema: absent takes the default, null is None.
OptOf(f, default) ==
    IF f.p = "absent" THEN default ELSE IF f.p = "null" THEN None ELSE Some(f.v)

\* LoadModelRequest.model_validate(payload): the request, or a ValidationError.
\* The error raised by the local_attention_context validator carries the
\* ValueError object in errors()[..]["ctx"], which orjson cannot encode.
ValidateLoadModel(l) ==
    LET bad_id == l.model_id.p # "val"
        bad_precision == l.precision.p = "null"
                            \/ (l.precision.p = "val" /\ l.precision.v \notin Precisions)
        bad_attention == l.attention.p = "null"
                            \/ (l.attention.p = "val" /\ l.attention.v \notin Attentions)
        bad_eager == l.eager_unload.p = "null"
        bad_type == l.local_attention_context.p = "null"
        bad_context == l.local_attention_context.p = "val"
                            /\ l.local_attention_context.v <= 0
    IN  IF bad_id \/ bad_precision \/ bad_attention \/ bad_eager \/ bad_type \/ bad_context
        THEN [exc |-> Some(Exc("ValidationError", "validation failed", ~bad_context)),
              cls |-> "", req |-> None]
        ELSE [exc |-> None, cls |-> "LoadModelRequest",
              req |-> [model_id |-> l.model_id.v,
                       local_path |-> OptOf(l.local_path, None),
                       cache_dir |-> OptOf(l.cache_dir, None),
                       precision |-> IF l.precision.p = "absent" THEN "bf16"
                                     ELSE l.precision.v,
                       attention |-> IF l.attention.p = "absent" THEN "full"
                                     ELSE l.attention.v,
                       local_attention_context |->
                           IF l.local_attention_context.p = "absent"
                           THEN DefaultLocalAttentionContext
                           ELSE l.local_attention_context.v,
                       chunk_duration |->
                           OptOf(l.chunk_duration, Some(DefaultChunkDuration)),
                       overlap_duration |->
                           OptOf(l.overlap_duration, Some(DefaultOverlapDuration)),
                       eager_unload |-> IF l.eager_unload.p = "absent" THEN FALSE
                                        ELSE l.eager_unload.v]]

\* TranscribeRequest.model_validate(payload); the audio_path validator raises a
\* ValueError for the empty string.
ValidateTranscribe(l) ==
    LET bad_missing == l.audio_path.p # "val"
        bad_empty == l.audio_path.p = "val" /\ l.audio_path.v = <<>>
        bad_attention == l.attention.p = "val" /\ l.attention.v \notin Attentions
        bad_flag == l.translate_to_english.p = "null" \/ l.use_word_timestamps.p = "null"
    IN  IF bad_missing \/ bad_empty \/ bad_attention \/ bad_flag
        THEN [exc |-> Some(Exc("ValidationError", "validation failed", ~bad_empty)),
              cls |-> "", req |-> None]
        ELSE [exc |-> None, cls |-> "TranscribeRequest",
              req |-> [audio_path |-> l.audio_path.v,
                       language |-> OptOf(l.language, None),
                       translate_to_english |->
                           IF l.translate_to_english.p = "absent" THEN FALSE
                           ELSE l.translate_to_english.v,
                       prompt |-> OptOf(l.prompt, None),
                       use_word_timestamps |->
                           IF l.use_word_timestamps.p = "absent" THEN TRUE
                           ELSE l.use_word_timestamps.v,
                       chunk_duration |-> OptOf(l.chunk_duration, None),
                       overlap_duration |-> OptOf(l.overlap_duration, None),
                       attention |-> OptOf(l.attention, None),
                       local_attention_context |->
                           OptOf(l.local_attention_context, None)]]

Plain(cls) == [exc |-> None, cls |-> cls, req |-> None]
Raise(kind, msg) == [exc |-> Some(Exc(kind, msg, TRUE)), cls |-> "", req |-> None]

\* parse_command(payload) on the value orjson.loads returned.
parse_command(l) ==
    IF l.shape \in {"null", "number"}
    THEN Raise("TypeError", "argument is not iterable")
    ELSE IF ~l.hasType
    THEN Raise("ValueError", "Missing 'type' in message payload")
    ELSE IF l.shape # "object"
    THEN Raise("TypeError", "indices must be integers")
    ELSE IF l.type = "load_model" THEN ValidateLoadModel(l)
    ELSE IF l.type = "unload_model" THEN Plain("UnloadModelRequest")
    ELSE IF l.type = "transcribe" THEN ValidateTranscribe(l)
    ELSE IF l.type = "status" THEN Plain("StatusRequest")
    ELSE IF l.type = "shutdown" THEN Plain("ShutdownRequest")
    ELSE Raise("ValueError", "Unknown message type")

\* orjson.loads(line) followed by parse_command: lines 136-137 of main.py.
Decode(l) ==
    IF l.shape = "malformed"
    THEN Raise("ValueError", "JSONDecodeError")
    ELSE parse_command(l)

(***************************************************************************)
(* The external collaborators: what snapshot_download, from_pretrained,    *)
(* the model's configuration methods, its close() and its transcribe() do  *)
(* is not decided by this program; a scenario fixes one outcome for each.  *)
(***************************************************************************)
AllParams ==
    {"language", "translate_to_english", "prompt", "use_word_timestamps",
     "chunk_duration", "overlap_duration", "attention", "local_attention_context"}

FewParams == {"chunk_duration", "overlap_duration"}

CloseKinds == {"absent", "returns", "RuntimeError"}

\* What the model's transcribe returns: a dict or an object with attributes, in
\* which each field is absent, None, or holds a value.  A segment is again a dict
\* or an object; its tokens, when given, are a list (or some other sequence) of
\* tokens, each a dict, a dict holding a value orjson cannot encode ("opaque"),
\* an object with attributes, or anything else.
AbsentL == [p |-> "absent", v |-> <<>>]
NullL == [p |-> "null", v |-> <<>>]
List(s) == [p |-> "val", v |-> s]

AbsentT == [p |-> "absent", v |-> <<>>, list |-> TRUE]
NullT == [p |-> "null", v |-> <<>>, list |-> TRUE]
TokenList(s) == [p |-> "val", v |-> s, list |-> TRUE]
TokenTuple(s) == [p |-> "val", v |-> s, list |-> FALSE]

BaseSegment ==
    [shape |-> "dict", text |-> Str("s"), start |-> Num(0), end |-> Num(1),
     tokens |-> AbsentT]

BaseRaw ==
    [shape |-> "dict", text |-> Str("hi"), transcription |-> AbsentS,
     language |-> Str("en"), duration |-> Num(2),
     segments |-> List(<<BaseSegment>>), sentences |-> AbsentL]

\* A result whose only segment has tokens that orjson cannot encode.
OpaqueRaw ==
    [BaseRaw EXCEPT
        !.segments = List(<<[BaseSegment EXCEPT !.tokens = TokenList(<<"opaque">>)]>>)]

\* A result whose only segment has "text": null.
NullTextRaw ==
    [BaseRaw EXCEPT !.segments = List(<<[BaseSegment EXCEPT !.text = NullS]>>)]

Calm ==
    [dl |-> "returns", inst |-> "returns", prec |-> "returns", attn |-> "returns",
     close |-> "returns", params |-> AllParams, result |-> "returns", raw |-> BaseRaw]

LoadScenarios ==
    {[Calm EXCEPT !.close = k] : k \in CloseKinds}
        \cup {[Calm EXCEPT !.dl = k] : k \in ExcKinds}
        \cup {[Calm EXCEPT !.inst = k] : k \in {"RuntimeError", "Exception"}}
        \cup {[Calm EXCEPT !.prec = k] : k \in {"absent", "Exception"}}
        \cup {[Calm EXCEPT !.attn = k] : k \in {"absent", "raises"}}
        \cup {[Calm EXCEPT !.params = FewParams]}

TranscribeScenarios ==
    {[Calm EXCEPT !.result = k] : k \in ExcKinds}
        \cup {[Calm EXCEPT !.raw = r] : r \in {BaseRaw, OpaqueRaw, NullTextRaw}}

(***************************************************************************)
(* model_manager.py: ModelManager.  Every operation maps the slot to the   *)
(* new slot, the side effects in order, and the exception it raised.       *)
(***************************************************************************)
Failed(c, fx, kind, msg) ==
    [cur |-> c, fx |-> fx, exc |-> Some(Exc(kind, msg, TRUE))]

Loaded(c) == c # None

\* `x or default` on an Optional[float].
OrDefault(opt, default) ==
    IF opt = None \/ opt[1] = 0 THEN default ELSE opt[1]

\* The directory snapshot_download returns.
DownloadDir(req) ==
    IF Truthy(req.cache_dir) THEN PathOf(req.cache_dir[1]) ELSE <<"hub", req.model_id>>

\* ModelManager._resolve_model_path
ResolveModelPath(c, req, sc) ==
    IF Truthy(req.local_path)
    THEN LET path == PathOf(req.local_path[1])
         IN  IF ~PathExists(path)
             THEN [exc |-> Some(Exc("FileNotFoundError", "local_path does not exist", TRUE)),
                   path |-> path,
                   fx |-> <<Ev("local_path", 0, "missing", Loaded(c))>>]
             ELSE [exc |-> None, path |-> path,
                   fx |-> <<Ev("local_path", 0, "exists", Loaded(c))>>]
    ELSE IF sc.dl # "returns"
         THEN [exc |-> Some(Exc(sc.dl, "download failed", TRUE)), path |-> <<>>,
               fx |-> <<Ev("snapshot_download", 0, "raises", Loaded(c))>>]
         ELSE [exc |-> None, path |-> DownloadDir(req),
               fx |-> <<Ev("snapshot_download", 0, "returns", Loaded(c))>>]

\* Faulty variant of the reuse test: compares the requested local_path as a raw
\* string instead of converting it with Path().
ReusableComparingStrings(c, req) ==
    /\ c # None
    /\ ~req.eager_unload
    /\ c[1].model_id = req.model_id
    /\ (~Truthy(req.local_path) \/ c[1].model_path = req.local_path[1])

\* Faulty variant of the reuse test: eager_unload is not consulted.
ReusableIgnoringEager(c, req) ==
    /\ c # None
    /\ c[1].model_id = req.model_id
    /\ (~Truthy(req.local_path) \/ c[1].model_path = PathOf(req.local_path[1]))

\* The reuse test at the head of ModelManager.load
Reusable(c, req) ==
    /\ c # None
    /\ ~req.eager_unload
    /\ c[1].model_id = req.model_id
    /\ (~Truthy(req.local_path) \/ c[1].model_path = PathOf(req.local_path[1]))

\* ModelManager._configure_precision: the first method the model has for the
\* requested precision is called; what it raises propagates.
ConfigurePrecision(c, id, sc) ==
    IF sc.prec = "absent" THEN [exc |-> None, fx |-> <<>>]
    ELSE IF sc.prec = "returns"
    THEN [exc |-> None, fx |-> <<Ev("precision", id, "returns", Loaded(c))>>]
    ELSE [exc |-> Some(Exc(sc.prec, "precision failed", TRUE)),
          fx |-> <<Ev("precision", id, "raises", Loaded(c))>>]

\* ModelManager._configure_attention: the encoder's setter is called when there is
\* one; whatever it raises is logged and swallowed.
ConfigureAttention(c, id, sc) ==
    IF sc.attn = "absent" THEN <<>>
    ELSE <<Ev("set_attention_model", id, sc.attn, Loaded(c))>>

\* The LoadedModel that load constructs.
NewLoadedModel(req, path, id, sc) ==
    [model_id |-> req.model_id,
     model_path |-> path,
     precision |-> req.precision,
     attention |-> req.attention,
     chunk_duration |-> OrDefault(req.chunk_duration, DefaultChunkDuration),
     overlap_duration |-> OrDefault(req.overlap_duration, DefaultOverlapDuration),
     instance |-> [id |-> id, close |-> sc.close],
     transcribe_params |-> sc.params,
     obj |-> id]

\* Faulty variant of load: the slot is emptied before the new model is resolved,
\* so a load that fails leaves no model behind.
ManagerLoadClearingFirst(c, req, sc, id) ==
    IF Reusable(c, req)
    THEN [cur |-> c, fx |-> <<Ev("reuse", c[1].instance.id, "", TRUE)>>, exc |-> None]
    ELSE LET r == ResolveModelPath(None, req, sc)
         IN  IF r.exc # None
             THEN [cur |-> None, fx |-> r.fx, exc |-> r.exc]
             ELSE IF sc.inst # "returns"
             THEN Failed(None, r.fx \o <<Ev("from_pretrained", 0, "raises", FALSE)>>,
                         sc.inst, "instantiation failed")
             ELSE LET fx1 == r.fx \o <<Ev("from_pretrained", id, "returns", FALSE)>>
                      pr == ConfigurePrecision(None, id, sc)
                  IN  IF pr.exc # None
                      THEN [cur |-> None, fx |-> fx1 \o pr.fx, exc |-> pr.exc]
                      ELSE [cur |-> Some(NewLoadedModel(req, r.path, id, sc)),
                            fx |-> fx1 \o pr.fx \o ConfigureAttention(None, id, sc)
                                       \o <<Ev("install", id, "", TRUE)>>,
                            exc |-> None]

\* Faulty variant of load: the model that is replaced is closed before the new one
\* is installed.
ManagerLoadReleasingPrevious(c, req, sc, id) ==
    IF Reusable(c, req)
    THEN [cur |-> c, fx |-> <<Ev("reuse", c[1].instance.id, "", TRUE)>>, exc |-> None]
    ELSE LET r == ResolveModelPath(c, req, sc)
             released == IF c # None /\ c[1].instance.close # "absent"
                         THEN <<Ev("close", c[1].instance.id, "returns", TRUE)>>
                         ELSE <<>>
         IN  IF r.exc # None
             THEN [cur |-> c, fx |-> r.fx, exc |-> r.exc]
             ELSE IF sc.inst # "returns"
             THEN Failed(c, r.fx \o <<Ev("from_pretrained", 0, "raises", Loaded(c))>>,
                         sc.inst, "instantiation failed")
             ELSE LET fx1 == r.fx \o <<Ev("from_pretrained", id, "returns", Loaded(c))>>
                      pr == ConfigurePrecision(c, id, sc)
                  IN  IF pr.exc # None
                      THEN [cur |-> c, fx |-> fx1 \o pr.fx, exc |-> pr.exc]
                      ELSE [cur |-> Some(NewLoadedModel(req, r.path, id, sc)),
                            fx |-> fx1 \o pr.fx \o ConfigureAttention(c, id, sc)
                                       \o released \o <<Ev("install", id, "", TRUE)>>,
                            exc |-> None]

\* ModelManager.load
ManagerLoad(c, req, sc, id) ==
    IF Reusable(c, req)
    THEN [cur |-> c, fx |-> <<Ev("reuse", c[1].instance.id, "", TRUE)>>, exc |-> None]
    ELSE LET r == ResolveModelPath(c, req, sc)
         IN  IF r.exc # None
             THEN [cur |-> c, fx |-> r.fx, exc |-> r.exc]
             ELSE IF sc.inst # "returns"
             THEN Failed(c, r.fx \o <<Ev("from_pretrained", 0, "raises", Loaded(c))>>,
                         sc.inst, "instantiation failed")
             ELSE LET fx1 == r.fx \o <<Ev("from_pretrained", id, "returns", Loaded(c))>>
                      pr == ConfigurePrecision(c, id, sc)
                  IN  IF pr.exc # None
                      THEN [cur |-> c, fx |-> fx1 \o pr.fx, exc |-> pr.exc]
                      ELSE [cur |-> Some(NewLoadedModel(req, r.path, id, sc)),
                            fx |-> fx1 \o pr.fx \o ConfigureAttention(c, id, sc)
                                       \o <<Ev("install", id, "", TRUE)>>,
                            exc |-> None]

\* Faulty variant of unload: the slot is cleared after close() without a finally
\* clause, so an exception of close() leaves the model in the slot.
ManagerUnloadWithoutFinally(c) ==
    IF c = None
    THEN [cur |-> c, fx |-> <<>>, exc |-> None]
    ELSE LET h == c[1].instance.id
             k == c[1].instance.close
             cleared == <<Ev("clear", h, "", FALSE)>>
         IN  IF k = "absent"
             THEN [cur |-> None, fx |-> cleared, exc |-> None]
             ELSE IF k = "returns"
             THEN [cur |-> None, fx |-> <<Ev("close", h, "returns", TRUE)>> \o cleared,
                   exc |-> None]
             ELSE Failed(c, <<Ev("close", h, "raises", TRUE)>>, k, "close failed")

\* ModelManager.unload: close() is called in a try whose finally clears the slot,
\* so an exception of close() leaves the slot empty and propagates.
ManagerUnload(c) ==
    IF c = None
    THEN [cur |-> c, fx |-> <<>>, exc |-> None]
    ELSE LET h == c[1].instance.id
             k == c[1].instance.close
             cleared == <<Ev("clear", h, "", FALSE)>>
         IN  IF k = "absent"
             THEN [cur |-> None, fx |-> cleared, exc |-> None]
             ELSE IF k = "returns"
             THEN [cur |-> None, fx |-> <<Ev("close", h, "returns", TRUE)>> \o cleared,
                   exc |-> None]
             ELSE Failed(None, <<Ev("close", h, "raises", TRUE)>> \o cleared,
                         k, "close failed")

\* ModelManager.status
ManagerStatus(c) ==
    IF c = None
    THEN NoStatus
    ELSE [loaded_model |-> Some(c[1].model_id),
          model_path |-> Some(c[1].model_path),
          precision |-> Some(c[1].precision),
          attention |-> Some(c[1].attention)]

\* The keyword arguments of one call of the model's transcribe: for every name,
\* None when it is not passed, else the value passed.
NoKwargs == [k \in AllParams |-> None]

PassedNames(kwargs) == {k \in AllParams : kwargs[k] # None}

\* merged[key] = value, guarded by `value is not None` and `key in params`.
Put(params, merged, key, opt) ==
    IF opt # None /\ key \in params THEN [merged EXCEPT ![key] = opt] ELSE merged

\* _build_kwargs, lines 191-198: the defaults of the loaded model.
KwargsDefaults(c) ==
    LET params == c[1].transcribe_params
        m1 == Put(params, NoKwargs, "chunk_duration", Some(c[1].chunk_duration))
    IN  Put(params, m1, "overlap_duration", Some(c[1].overlap_duration))

\* _build_kwargs, lines 209-215: attention is `request.attention or the loaded
\* attention`; the context is `request.local_attention_context or None`, so 0
\* counts as not given and any other integer is passed on.
KwargsAttention(c, req, merged) ==
    LET params == c[1].transcribe_params
        attention_mode == IF req.attention # None THEN req.attention[1]
                          ELSE c[1].attention
        context == IF req.local_attention_context = None
                        \/ req.local_attention_context[1] = 0
                   THEN None
                   ELSE req.local_attention_context
        m1 == IF "attention" \in params
              THEN [merged EXCEPT !["attention"] = Some(attention_mode)]
              ELSE merged
    IN  Put(params, m1, "local_attention_context", context)

\* Faulty variant of the override loop: a value is written without looking the
\* name up in the signature of the model's transcribe.
KwargsOverridesUnfiltered(c, req, merged) ==
    LET m1 == Put(AllParams, merged, "language", req.language)
        m2 == Put(AllParams, m1, "translate_to_english", Some(req.translate_to_english))
        m3 == Put(AllParams, m2, "prompt", req.prompt)
        m4 == Put(AllParams, m3, "use_word_timestamps", Some(req.use_word_timestamps))
        m5 == Put(AllParams, m4, "chunk_duration", req.chunk_duration)
    IN  Put(AllParams, m5, "overlap_duration", req.overlap_duration)

\* Faulty variant of the override loop: a duration is skipped when it is falsy
\* (`if not value`), so a request value of 0 leaves the default in place.
KwargsOverridesSkippingZero(c, req, merged) ==
    LET params == c[1].transcribe_params
        NonZero(opt) == IF opt # None /\ opt[1] = 0 THEN None ELSE opt
        m1 == Put(params, merged, "language", req.language)
        m2 == Put(params, m1, "translate_to_english", Some(req.translate_to_english))
        m3 == Put(params, m2, "prompt", req.prompt)
        m4 == Put(params, m3, "use_word_timestamps", Some(req.use_word_timestamps))
        m5 == Put(params, m4, "chunk_duration", NonZero(req.chunk_duration))
    IN  Put(params, m5, "overlap_duration", NonZero(req.overlap_duration))

\* _build_kwargs, lines 200-207 and 217-221: the values of the request, each
\* skipped when it is None or not a parameter of the model's transcribe.
KwargsOverrides(c, req, merged) ==
    LET params == c[1].transcribe_params
        m1 == Put(params, merged, "language", req.language)
        m2 == Put(params, m1, "translate_to_english", Some(req.translate_to_english))
        m3 == Put(params, m2, "prompt", req.prompt)
        m4 == Put(params, m3, "use_word_timestamps", Some(req.use_word_timestamps))
        m5 == Put(params, m4, "chunk_duration", req.chunk_duration)
    IN  Put(params, m5, "overlap_duration", req.overlap_duration)

\* ModelManager._build_kwargs
BuildKwargs(c, req) ==
    KwargsOverrides(c, req, KwargsAttention(c, req, KwargsDefaults(c)))

\* dict.get(key): None unless the key holds a value.
Get(f) == IF f.p = "val" THEN Some(f.v) ELSE None

\* dict.get(key, default) and getattr(obj, key, default): the default only when
\* the key or attribute does not exist.
GetOr(f, default) == IF f.p = "absent" THEN default ELSE Get(f)

\* bool(s) of an Optional[str].
TruthyStr(opt) == opt # None /\ opt[1] # ""

\* _normalise_result, lines 232-241: text and the raw segments of the result.
RawText(raw) ==
    IF raw.shape = "dict"
    THEN IF TruthyStr(Get(raw.text)) THEN Get(raw.text)
         ELSE IF TruthyStr(Get(raw.transcription)) THEN Get(raw.transcription)
         ELSE Some("")
    ELSE GetOr(raw.text, Some(""))

RawSegments(raw) ==
    LET segs == Get(raw.segments)
        sents == IF raw.shape = "dict" THEN Get(raw.sentences)
                 ELSE GetOr(raw.sentences, Some(<<>>))
        found == IF Truthy(segs) THEN segs ELSE sents
    IN  IF Truthy(found) THEN found[1] ELSE <<>>

\* _normalise_result, lines 256-273: a non-empty list of tokens becomes a list of
\* dicts, anything else becomes None.  A token dict is kept as it is.
ProcessedTokens(tokens) ==
    IF tokens.p # "val" \/ tokens.v = <<>> \/ ~tokens.list
    THEN None
    ELSE Some([i \in 1..Len(tokens.v) |->
                  IF tokens.v[i] = "opaque" THEN "opaque" ELSE "dict"])

\* _normalise_result, lines 244-282: the fields SegmentPayload is built from.
SegmentFields(seg) ==
    [text |-> GetOr(seg.text, Some("")),
     start |-> Get(seg.start),
     end |-> Get(seg.end),
     tokens |-> ProcessedTokens(seg.tokens)]

\* ModelManager._normalise_result: the payload dict, or the ValidationError of
\* the first SegmentPayload whose text is None.
NormaliseResult(raw) ==
    LET rs == RawSegments(raw)
        segments == [i \in 1..Len(rs) |-> SegmentFields(rs[i])]
    IN  IF \E i \in 1..Len(rs) : segments[i].text = None
        THEN [exc |-> Some(Exc("ValidationError", "validation failed", TRUE)),
              payload |-> [text |-> None, segments |-> <<>>, language |-> None,
                           duration |-> None]]
        ELSE [exc |-> None,
              payload |-> [text |-> RawText(raw), segments |-> segments,
                           language |-> Get(raw.language),
                           duration |-> Get(raw.duration)]]

\* Whether orjson can encode a TranscriptionResponse made from the payload.
Encodable(payload) ==
    \A i \in 1..Len(payload.segments) :
        LET tokens == payload.segments[i].tokens
        IN  tokens # None => \A j \in 1..Len(tokens[1]) : tokens[1][j] # "opaque"

\* The tail of ModelManager.transcribe, lines 129-134: build the keyword
\* arguments, invoke the model (a keyword its transcribe does not declare is a
\* TypeError), normalise what it returns and build the TranscriptionResponse,
\* whose text must be a str.
Infer(c, req, sc) ==
    LET h == c[1].instance.id
        seen == <<Ev("audio_path", 0, "exists", TRUE)>>
        kwargs == BuildKwargs(c, req)
        n == NormaliseResult(sc.raw)
    IN  IF ~(PassedNames(kwargs) \subseteq c[1].transcribe_params)
        THEN [fx |-> seen \o <<Ev("transcribe", h, "raises", TRUE)>>,
              exc |-> Some(Exc("Exception", "unexpected keyword argument", TRUE)),
              ret |-> BaseResponse]
        ELSE IF sc.result \in ExcKinds
        THEN [fx |-> seen \o <<Ev("transcribe", h, "raises", TRUE)>>,
              exc |-> Some(Exc(sc.result, "inference failed", TRUE)),
              ret |-> BaseResponse]
        ELSE IF n.exc # None
        THEN [fx |-> seen \o <<Ev("transcribe", h, "returns", TRUE)>>,
              exc |-> n.exc,
              ret |-> BaseResponse]
        ELSE IF n.payload.text = None
        THEN [fx |-> seen \o <<Ev("transcribe", h, "returns", TRUE)>>,
              exc |-> Some(Exc("ValidationError", "validation failed", TRUE)),
              ret |-> BaseResponse]
        ELSE [fx |-> seen \o <<Ev("transcribe", h, "returns", TRUE)>>,
              exc |-> None,
              ret |-> TranscriptionResponse(Encodable(n.payload))]

NoModel ==
    [fx |-> <<>>, exc |-> Some(Exc("RuntimeError", "No Parakeet model loaded", TRUE)),
     ret |-> BaseResponse]

NoAudio(c) ==
    [fx |-> <<Ev("audio_path", 0, "missing", Loaded(c))>>,
     exc |-> Some(Exc("FileNotFoundError", "Audio path not found", TRUE)),
     ret |-> BaseResponse]

\* Faulty variant of transcribe: the audio file is looked up before the slot.
TranscribeChecksFileFirst(c, req, sc) ==
    IF ~PathExists(PathOf(req.audio_path)) THEN NoAudio(c)
    ELSE IF c = None THEN NoModel
    ELSE Infer(c, req, sc)

\* Faulty variant of transcribe: the audio file is not looked up at all.
TranscribeSkipsFileCheck(c, req, sc) ==
    IF c = None THEN NoModel ELSE Infer(c, req, sc)

\* ModelManager.transcribe: the response it returns, or the exception it raises.
ManagerTranscribe(c, req, sc) ==
    IF c = None THEN NoModel
    ELSE IF ~PathExists(PathOf(req.audio_path)) THEN NoAudio(c)
    ELSE Infer(c, req, sc)

(***************************************************************************)
(* main.py: write_response, handle_command, event_loop, run.               *)
(***************************************************************************)
\* write_response: the line that reaches stdout.  When orjson cannot encode the
\* response, the fixed serialisation_error response is written in its place.
write_response(resp) ==
    IF resp.ser
    THEN resp
    ELSE ErrorResponse("serialisation_error", "Internal serialisation error", TRUE)

\* The effect of one write_response call made while the slot is c.
Wrote(resp, c) == <<Ev("write", 0, write_response(resp).type, Loaded(c))>>

\* The outcome of handling one line: slot, effects, lines written, exit status.
Outcome(c, fx, resps, exit) == [cur |-> c, fx |-> fx, resp |-> resps, exit |-> exit]

Answer(c, fx, resp) == Outcome(c, fx \o Wrote(resp, c), <<write_response(resp)>>, None)

\* The except clauses of handle_command, lines 94-126.
HandleException(c, fx, exc) ==
    IF exc.kind = "FileNotFoundError"
    THEN Answer(c, fx, ErrorResponse("file_not_found", exc.msg, TRUE))
    ELSE IF exc.kind = "ValidationError"
    THEN Answer(c, fx, ErrorResponse("validation_error", "Invalid command payload", exc.ser))
    ELSE IF exc.kind = "RuntimeError"
    THEN Answer(c, fx, ErrorResponse("runtime_error", exc.msg, TRUE))
    ELSE Answer(c, fx, ErrorResponse("internal_error", exc.msg, TRUE))

\* handle_command, LoadModelRequest branch.
HandleLoadModel(c, req, sc, id) ==
    LET r == ManagerLoad(c, req, sc, id)
    IN  IF r.exc # None
        THEN HandleException(r.cur, r.fx, r.exc[1])
        ELSE Answer(r.cur, r.fx,
                    OkResponse("load_model",
                               [model_id |-> req.model_id, precision |-> req.precision,
                                attention |-> req.attention]))

\* handle_command, UnloadModelRequest branch.
HandleUnloadModel(c) ==
    LET r == ManagerUnload(c)
    IN  IF r.exc # None
        THEN HandleException(r.cur, r.fx, r.exc[1])
        ELSE Answer(r.cur, r.fx, OkResponse("unload_model", NoPayload))

\* handle_command, TranscribeRequest branch.
HandleTranscribe(c, req, sc) ==
    LET r == ManagerTranscribe(c, req, sc)
    IN  IF r.exc # None
        THEN HandleException(c, r.fx, r.exc[1])
        ELSE Answer(c, r.fx, r.ret)

\* handle_command, StatusRequest branch.
HandleStatus(c) == Answer(c, <<>>, StatusResponse(ManagerStatus(c)))

\* Faulty variant of the shutdown branch: the ok response is written before the
\* model is unloaded.
ShutdownAnswersFirst(c) ==
    LET a == Answer(c, <<>>, OkResponse("shutdown", NoPayload))
        r == ManagerUnload(c)
    IN  IF r.exc # None
        THEN HandleException(r.cur, a.fx \o r.fx, r.exc[1])
        ELSE Outcome(r.cur, a.fx \o r.fx \o <<Ev("exit", 0, "0", Loaded(r.cur))>>,
                     a.resp, Some(0))

\* handle_command, ShutdownRequest branch: unload, write ok, raise SystemExit(0),
\* which no except clause of handle_command catches and run() swallows.
HandleShutdown(c) ==
    LET r == ManagerUnload(c)
    IN  IF r.exc # None
        THEN HandleException(r.cur, r.fx, r.exc[1])
        ELSE LET a == Answer(r.cur, r.fx, OkResponse("shutdown", NoPayload))
             IN  Outcome(a.cur, a.fx \o <<Ev("exit", 0, "0", Loaded(a.cur))>>, a.resp, Some(0))

\* handle_command
handle_command(c, cmd, sc, id) ==
    IF cmd.cls = "LoadModelRequest" THEN HandleLoadModel(c, cmd.req, sc, id)
    ELSE IF cmd.cls = "UnloadModelRequest" THEN HandleUnloadModel(c)
    ELSE IF cmd.cls = "TranscribeRequest" THEN HandleTranscribe(c, cmd.req, sc)
    ELSE IF cmd.cls = "StatusRequest" THEN HandleStatus(c)
    ELSE HandleShutdown(c)

\* Faulty variant of the except clauses of event_loop: no catch-all clause, so an
\* exception that is no ValueError leaves the loop and ends the process.
DecodeFailureUncaught(c, exc) ==
    IF exc.kind = "ValidationError"
    THEN Answer(c, <<>>, ErrorResponse("validation_error", "Invalid payload", exc.ser))
    ELSE IF exc.kind = "ValueError"
    THEN Answer(c, <<>>, ErrorResponse("parse_error", exc.msg, TRUE))
    ELSE Outcome(c, <<Ev("exit", 0, "1", Loaded(c))>>, <<>>, Some(1))

\* The except clauses of event_loop, lines 138-155.
DecodeFailure(c, exc) ==
    IF exc.kind = "ValidationError"
    THEN Answer(c, <<>>, ErrorResponse("validation_error", "Invalid payload", exc.ser))
    ELSE Answer(c, <<>>, ErrorResponse("parse_error", exc.msg, TRUE))

\* Faulty variant of the loop body: blank lines are not skipped.
IterationDecodesBlank(c, line, sc, id) ==
    LET cmd == Decode(line)
    IN  IF cmd.exc # None
        THEN DecodeFailure(c, cmd.exc[1])
        ELSE handle_command(c, cmd, sc, id)

\* One iteration of the for loop of event_loop on one line of stdin.
Iteration(c, line, sc, id) ==
    IF line.shape = "blank"
    THEN Outcome(c, <<>>, <<>>, None)
    ELSE LET cmd == Decode(line)
         IN  IF cmd.exc # None
             THEN DecodeFailure(c, cmd.exc[1])
             ELSE handle_command(c, cmd, sc, id)

\* _graceful_shutdown raises SystemExit(0) in the main thread; run() catches it
\* and returns, so the process exits with status 0.
GracefulShutdown(c) == Outcome(c, <<Ev("exit", 0, "0", Loaded(c))>>, <<>>, Some(0))

\* stdin is exhausted: event_loop returns and so does run().
EndOfLoop(c) == Outcome(c, <<Ev("exit", 0, "0", Loaded(c))>>, <<>>, Some(0))

\* Reading stdin raises: run() logs and re-raises, the interpreter exits with 1.
FatalError(c) == Outcome(c, <<Ev("exit", 0, "1", Loaded(c))>>, <<>>, Some(1))

(***************************************************************************)
(* The state machine.                                                      *)
(***************************************************************************)
Running == exited = None

Created(fx) == \E i \in 1..Len(fx) : fx[i].ev = "from_pretrained" /\ fx[i].arg = "returns"

Stamp(resps, n) ==
    [i \in 1..Len(resps) |-> [src |-> n]]

\* The outcome r of a step of the main thread takes effect.
Take(kind, line, r) ==
    /\ cur' = r.cur
    /\ out' = out \o Stamp(r.resp, Len(read) + 1)
    /\ exited' = r.exit
    /\ nextId' = IF Created(r.fx) THEN nextId + 1 ELSE nextId
    /\ last' = [kind |-> kind, line |-> line, pre |-> cur, fx |-> r.fx, resp |-> r.resp]

Apply(kind, line, r) ==
    /\ Take(kind, line, r)
    /\ UNCHANGED <<call, pc, lock>>

\* The loop reads one more line and handles it completely.
ReadLine(line, r) ==
    /\ Apply("line", line, r)
    /\ read' = Append(read, line.shape # "blank")

MoreInput == Running /\ Len(read) < MaxLines

\* No transcribe call is under examination.
NoCall == [stage |-> "none"]

\* The threads that call the ModelManager.
Callers == 1..MaxCallers

\* A thread that is not calling the ModelManager.
Idle == [at |-> "idle", op |-> "", arg |-> ""]

Init ==
    /\ cur = None
    /\ out = <<>>
    /\ read = <<>>
    /\ exited = None
    /\ nextId = 1
    /\ last = [kind |-> "init", line |-> BaseLine, pre |-> None, fx |-> <<>>, resp |-> <<>>]
    /\ call = NoCall
    /\ pc = [t \in Callers |-> Idle]
    /\ lock = 0

BlankLine ==
    /\ MoreInput
    /\ \E line \in BlankLines :
          ReadLine(line, Iteration(cur, line, Calm, nextId))

MalformedLine ==
    /\ MoreInput
    /\ \E line \in MalformedLines :
          ReadLine(line, Iteration(cur, line, Calm, nextId))

\* What the collaborators would do matters only to a line that decodes to a
\* request.
Relevant(line, scenarios) ==
    IF Decode(line).exc = None THEN scenarios ELSE {Calm}

LoadModel ==
    /\ MoreInput
    /\ \E line \in LoadLines :
          \E sc \in Relevant(line, LoadScenarios) :
              ReadLine(line, Iteration(cur, line, sc, nextId))

UnloadModel ==
    /\ MoreInput
    /\ \E line \in UnloadLines :
          ReadLine(line, Iteration(cur, line, Calm, nextId))

TranscribeAudio ==
    /\ MoreInput
    /\ \E line \in TranscribeLines :
          \E sc \in Relevant(line, TranscribeScenarios) :
              ReadLine(line, Iteration(cur, line, sc, nextId))

Status ==
    /\ MoreInput
    /\ \E line \in StatusLines :
          ReadLine(line, Iteration(cur, line, Calm, nextId))

Shutdown ==
    /\ MoreInput
    /\ \E line \in ShutdownLines :
          ReadLine(line, Iteration(cur, line, Calm, nextId))

\* SIGINT or SIGTERM arrives while the loop waits for a line.
Signal ==
    /\ Running
    /\ Apply("signal", BaseLine, GracefulShutdown(cur))
    /\ UNCHANGED read

\* The host closes stdin.
EndOfInput ==
    /\ Running
    /\ Apply("eof", BaseLine, EndOfLoop(cur))
    /\ UNCHANGED read

\* Reading stdin raises.
StdinFault ==
    /\ Running
    /\ Apply("fault", BaseLine, FatalError(cur))
    /\ UNCHANGED read

Next ==
    \/ BlankLine
    \/ MalformedLine
    \/ LoadModel
    \/ UnloadModel
    \/ TranscribeAudio
    \/ Status
    \/ Shutdown
    \/ Signal
    \/ EndOfInput
    \/ StdinFault

Spec == Init /\ [][Next]_vars

(***************************************************************************)
(* One transcribe call, for the parameter builder and the result           *)
(* normaliser: the host sends one load_model line and one transcribe line; *)
(* the inputs are the two lines, the parameters the model's transcribe     *)
(* declares, and the result it returns.                                    *)
(***************************************************************************)
CapabilitySets == {AllParams, FewParams, AllParams \ {"language"}, {}}

KwLoadLines ==
    {LoadLine("m1"),
     [LoadLine("m1") EXCEPT !.chunk_duration = NullN, !.overlap_duration = Num(0)],
     [LoadLine("m1") EXCEPT !.attention = Str("local"),
                            !.local_attention_context = Num(64),
                            !.chunk_duration = Num(60), !.overlap_duration = Num(5)],
     [LoadLine("m1") EXCEPT !.chunk_duration = Num(-5), !.overlap_duration = Num(-1)]}

KwTranscribeLines ==
    {[TranscribeLine(<<"f">>) EXCEPT !.language = la, !.chunk_duration = ch,
                                     !.overlap_duration = ov, !.attention = at,
                                     !.local_attention_context = lc] :
        la \in {AbsentS, Str("en")},
        ch \in {AbsentN, NullN, Num(0), Num(30)},
        ov \in {AbsentN, Num(0), Num(5)},
        at \in {AbsentS, Str("full"), Str("local")},
        lc \in {AbsentN, Num(0), Num(-1), Num(64)}}
      \cup {[TranscribeLine(<<"f">>) EXCEPT !.prompt = Str("p"),
                                            !.translate_to_english = Bool(TRUE),
                                            !.use_word_timestamps = Bool(FALSE)]}

Shapes == {"dict", "object"}

RawSegmentKinds ==
    {[BaseSegment EXCEPT !.shape = sh, !.text = t] :
        sh \in Shapes, t \in {AbsentS, NullS, Str("s")}}
      \cup {[BaseSegment EXCEPT !.shape = sh, !.start = x, !.end = x] :
                sh \in Shapes, x \in {AbsentN, NullN}}
      \cup {[BaseSegment EXCEPT !.shape = sh, !.tokens = k] :
                sh \in Shapes,
                k \in {NullT, TokenList(<<>>), TokenList(<<"dict", "object", "other">>),
                       TokenList(<<"opaque">>), TokenTuple(<<"dict">>)}}

RawSegmentLists ==
    {AbsentL, NullL, List(<<>>)}
      \cup {List(<<seg>>) : seg \in RawSegmentKinds}
      \cup {List(<<BaseSegment, [BaseSegment EXCEPT !.text = NullS]>>)}

RawMeta ==
    {[language |-> AbsentS, duration |-> AbsentN],
     [language |-> NullS, duration |-> NullN],
     [language |-> Str("en"), duration |-> Num(2)]}

RawResults ==
    {[BaseRaw EXCEPT !.shape = sh, !.text = t, !.transcription = tr,
                     !.language = m.language, !.duration = m.duration,
                     !.segments = sg, !.sentences = st] :
        sh \in Shapes,
        t \in {AbsentS, NullS, Str(""), Str("hi")},
        tr \in {AbsentS, Str("tr")},
        m \in RawMeta,
        sg \in RawSegmentLists,
        st \in {AbsentL, NullL, List(<<BaseSegment>>)}}

\* A call that has not been made yet.
BaseCall ==
    [stage |-> "input", params |-> AllParams, load |-> LoadLine("m1"),
     line |-> TranscribeLine(<<"f">>), raw |-> BaseRaw, kwargs |-> NoKwargs,
     norm |-> NormaliseResult(BaseRaw)]

CallInputs ==
    {[BaseCall EXCEPT !.params = ps, !.load = l, !.line = t] :
        ps \in CapabilitySets, l \in KwLoadLines, t \in KwTranscribeLines}
      \cup {[BaseCall EXCEPT !.raw = r] : r \in RawResults}

InitTranscribe ==
    /\ cur = None
    /\ out = <<>>
    /\ read = <<>>
    /\ exited = None
    /\ nextId = 1
    /\ last = [kind |-> "init", line |-> BaseLine, pre |-> None, fx |-> <<>>, resp |-> <<>>]
    /\ call \in CallInputs
    /\ pc = [t \in Callers |-> Idle]
    /\ lock = 0

\* The load_model line is read; the model that from_pretrained returns has a
\* transcribe with the parameters call.params.
LoadForCall ==
    /\ Running
    /\ call.stage = "input"
    /\ Take("line", call.load,
            Iteration(cur, call.load, [Calm EXCEPT !.params = call.params], nextId))
    /\ read' = Append(read, TRUE)
    /\ call' = [call EXCEPT !.stage = "loaded"]
    /\ UNCHANGED <<pc, lock>>

\* The transcribe line is read; the model returns call.raw.  What _build_kwargs
\* and _normalise_result computed on the way is kept in call.
TranscribeCall ==
    /\ Running
    /\ call.stage = "loaded"
    /\ Take("line", call.line,
            Iteration(cur, call.line, [Calm EXCEPT !.raw = call.raw], nextId))
    /\ read' = Append(read, TRUE)
    /\ call' = [call EXCEPT !.stage = "done",
                            !.kwargs = BuildKwargs(cur, Decode(call.line).req),
                            !.norm = NormaliseResult(call.raw)]
    /\ UNCHANGED <<pc, lock>>

NextTranscribe ==
    \/ LoadForCall
    \/ TranscribeCall

SpecTranscribe == InitTranscribe /\ [][NextTranscribe]_vars

(***************************************************************************)
(* Several threads calling load, unload, status and transcribe of one      *)
(* ModelManager.  Every method is one `with self._lock:` block: the thread *)
(* waits for the lock, enters the body, sits in the body's external call   *)
(* (download and instantiation, close, inference), finishes the body, and  *)
(* leaves the block, which releases the lock.                              *)
(***************************************************************************)
ConcModelIds == {"m1", "m2"}

ConcScenarios ==
    {Calm, [Calm EXCEPT !.dl = "RuntimeError"], [Calm EXCEPT !.close = "RuntimeError"]}

\* Faulty variant of the lock: nothing makes a thread wait.
CanAcquireUnguarded(t) == TRUE

\* threading.RLock: free, or already held by the same thread.
CanAcquire(t) == lock \in {0, t}

\* The body of the method the thread is in, run on the slot c.
ManagerOp(c, p, sc, id) ==
    IF p.op = "load" THEN ManagerLoad(c, Decode(LoadLine(p.arg)).req, sc, id)
    ELSE IF p.op = "unload" THEN ManagerUnload(c)
    ELSE IF p.op = "transcribe"
    THEN LET r == ManagerTranscribe(c, Decode(TranscribeLine(<<p.arg>>)).req, sc)
         IN  [cur |-> c, fx |-> r.fx, exc |-> r.exc]
    ELSE [cur |-> c, fx |-> <<>>, exc |-> None]

\* The thread calls a method, with a model_id or an audio path where the method
\* takes a request, and arrives at its `with self._lock:`.
Calling(t, op, arg) ==
    /\ pc' = [pc EXCEPT ![t] = [at |-> "wait", op |-> op, arg |-> arg]]
    /\ UNCHANGED <<cur, out, read, exited, nextId, last, call, lock>>

CallLoad ==
    \E t \in Callers, id \in ConcModelIds :
        /\ pc[t].at = "idle"
        /\ nextId <= MaxModels
        /\ Calling(t, "load", id)

CallUnload ==
    \E t \in Callers :
        /\ pc[t].at = "idle"
        /\ Calling(t, "unload", "")

CallStatus ==
    \E t \in Callers :
        /\ pc[t].at = "idle"
        /\ Calling(t, "status", "")

CallTranscribe ==
    \E t \in Callers :
        /\ pc[t].at = "idle"
        /\ Calling(t, "transcribe", "f")

\* `with self._lock:` is entered.
Acquire ==
    \E t \in Callers :
        /\ pc[t].at = "wait"
        /\ CanAcquire(t)
        /\ lock' = t
        /\ pc' = [pc EXCEPT ![t].at = "entered"]
        /\ UNCHANGED <<cur, out, read, exited, nextId, last, call>>

\* The body reaches its external call and blocks in it; status has none.
Block ==
    \E t \in Callers :
        /\ pc[t].at = "entered"
        /\ pc[t].op # "status"
        /\ pc' = [pc EXCEPT ![t].at = "blocking"]
        /\ UNCHANGED <<cur, out, read, exited, nextId, last, call, lock>>

\* The body runs to its end: it returns or raises, and the slot is what the
\* method made of it.
Finish ==
    \E t \in Callers, sc \in ConcScenarios :
        /\ \/ pc[t].at = "blocking"
           \/ pc[t].at = "entered" /\ pc[t].op = "status"
        /\ LET r == ManagerOp(cur, pc[t], sc, nextId)
           IN  /\ cur' = r.cur
               /\ nextId' = IF Created(r.fx) THEN nextId + 1 ELSE nextId
        /\ pc' = [pc EXCEPT ![t].at = "leaving"]
        /\ UNCHANGED <<out, read, exited, last, call, lock>>

\* The `with` block is left: the lock is released.
Release ==
    \E t \in Callers :
        /\ pc[t].at = "leaving"
        /\ lock' = IF lock = t THEN 0 ELSE lock
        /\ pc' = [pc EXCEPT ![t] = Idle]
        /\ UNCHANGED <<cur, out, read, exited, nextId, last, call>>

NextConcurrent ==
    \/ CallLoad
    \/ CallUnload
    \/ CallStatus
    \/ CallTranscribe
    \/ Acquire
    \/ Block
    \/ Finish
    \/ Release

SpecConcurrent == Init /\ [][NextConcurrent]_vars

(***************************************************************************)
(* Properties.                                                             *)
(***************************************************************************)
LastCmd == Decode(last.line)

\* The last step handled a line that decoded to a request of class cls.
IsCommand(cls) ==
    /\ last.kind = "line"
    /\ last.line.shape # "blank"
    /\ LastCmd.exc = None
    /\ LastCmd.cls = cls

Happened(e) == \E i \in 1..Len(last.fx) : last.fx[i].ev = e

AnsweredOk == Len(last.resp) = 1 /\ last.resp[1].type = "ok"

AnsweredError(code) ==
    /\ Len(last.resp) = 1
    /\ last.resp[1].type = "error"
    /\ last.resp[1].code = code

NonBlankUpTo(n) == Cardinality({i \in 1..n : read[i]})

\* C1: for the lines the worker has read, stdout holds exactly one response for
\* each non-blank line and none for a blank one, in the order of the lines that
\* caused them; the step that handles a line writes one response (none for a
\* blank line) whatever the command ended in, and what is written is always an
\* encodable response, the fixed serialisation_error response standing in for one
\* that could not be encoded.
C1_OneResponsePerLine ==
    /\ Len(out) = NonBlankUpTo(Len(read))
    /\ \A k \in 1..Len(out) :
          /\ out[k].src \in 1..Len(read)
          /\ read[out[k].src]
          /\ NonBlankUpTo(out[k].src) = k
    /\ last.kind = "line" =>
          Len(last.resp) = (IF last.line.shape = "blank" THEN 0 ELSE 1)
    /\ \A i \in 1..Len(last.resp) : last.resp[i].ser

\* A blank line between two answered lines, the second answered with the
\* serialisation_error response.
C1_Witness ==
    /\ read = <<TRUE, FALSE, TRUE>>
    /\ out = <<[src |-> 1], [src |-> 3]>>
    /\ AnsweredError("serialisation_error")

\* C2: after a load_model answered with ok, a status command issued next reports
\* the model_id, precision and attention of that load_model request.
C2_StatusReportsRequest ==
    (IsCommand("LoadModelRequest") /\ AnsweredOk) =>
        LET req == LastCmd.req
            st == HandleStatus(cur).resp[1].status
        IN  /\ st.loaded_model = Some(req.model_id)
            /\ st.precision = Some(req.precision)
            /\ st.attention = Some(req.attention)

\* The case of the reuse policy: a model is loaded, eager_unload is false, the
\* model_id is the loaded one, and local_path is not given or names the loaded
\* directory.
ReuseCase ==
    /\ IsCommand("LoadModelRequest")
    /\ last.pre # None
    /\ ~LastCmd.req.eager_unload
    /\ last.pre[1].model_id = LastCmd.req.model_id
    /\ \/ LastCmd.req.local_path = None
       \/ PathOf(LastCmd.req.local_path[1]) = last.pre[1].model_path

\* C3: in the reuse case the load resolves no path, downloads nothing,
\* instantiates nothing, and leaves the slot exactly as it was.
C3_ReuseIsIdempotent ==
    ReuseCase =>
        /\ cur = last.pre
        /\ ~Happened("local_path")
        /\ ~Happened("snapshot_download")
        /\ ~Happened("from_pretrained")
        /\ AnsweredOk

\* The reuse case with a local_path written differently from the loaded directory
\* ("a/" for the directory "a").
C3_Witness ==
    /\ ReuseCase
    /\ last.line.local_path = PathStr(<<"a", "">>)
    /\ cur = last.pre

\* C4: a load_model with eager_unload true that is answered with ok resolved the
\* path, instantiated a model, and left in the slot a state object and a handle
\* that did not exist before the command.
C4_EagerUnloadLoadsAfresh ==
    (IsCommand("LoadModelRequest") /\ LastCmd.req.eager_unload /\ AnsweredOk) =>
        /\ Happened("local_path") \/ Happened("snapshot_download")
        /\ \E i \in 1..Len(last.fx) :
              last.fx[i].ev = "from_pretrained" /\ last.fx[i].arg = "returns"
        /\ cur # None
        /\ cur[1].obj = nextId - 1
        /\ cur[1].instance.id = nextId - 1
        /\ last.pre # None =>
              /\ last.pre[1].obj < cur[1].obj
              /\ last.pre[1].instance.id < cur[1].instance.id

\* An eager load of the model_id and directory that are already in the slot.
C4_Witness ==
    /\ IsCommand("LoadModelRequest")
    /\ LastCmd.req.eager_unload
    /\ AnsweredOk
    /\ last.pre # None
    /\ cur # None
    /\ last.pre[1].model_id = cur[1].model_id
    /\ last.pre[1].model_path = cur[1].model_path
    /\ LastCmd.req.local_path # None

\* C5: a transcribe command that finds the slot empty is answered with an error
\* of code runtime_error and a non-empty message, and the model's transcribe is
\* not invoked, whether or not the audio path exists.
C5_TranscribeOnEmptySlot ==
    (IsCommand("TranscribeRequest") /\ last.pre = None) =>
        /\ AnsweredError("runtime_error")
        /\ last.resp[1].message # ""
        /\ ~Happened("transcribe")
        /\ ~Happened("audio_path")

\* A transcribe of an existing audio file on a slot that is empty after a model
\* had been instantiated earlier.
C5_Witness ==
    /\ IsCommand("TranscribeRequest")
    /\ last.pre = None
    /\ PathExists(PathOf(LastCmd.req.audio_path))
    /\ nextId > 1
    /\ AnsweredError("runtime_error")

\* C6: with a model loaded, a transcribe command whose audio_path does not exist
\* is answered with an error of code file_not_found and the model's transcribe
\* is not invoked.
C6_TranscribeMissingAudio ==
    (/\ IsCommand("TranscribeRequest")
     /\ last.pre # None
     /\ ~PathExists(PathOf(LastCmd.req.audio_path))) =>
        /\ AnsweredError("file_not_found")
        /\ ~Happened("transcribe")

C6_Witness ==
    /\ IsCommand("TranscribeRequest")
    /\ last.pre # None
    /\ ~PathExists(PathOf(LastCmd.req.audio_path))
    /\ AnsweredError("file_not_found")

CommandTypes == {"load_model", "unload_model", "transcribe", "status", "shutdown"}

\* A line that is not well-formed JSON, is not a JSON object, or has a missing or
\* unrecognised type.
NotACommand(l) ==
    \/ l.shape \in {"malformed", "null", "number", "string", "array"}
    \/ l.shape = "object" /\ (~l.hasType \/ l.type \notin CommandTypes)

\* C7: a line that is no command is answered with exactly one error response of
\* code parse_error, the loop goes on (the process has not exited, the slot is
\* untouched), and the line read next is answered: one more response on stdout if
\* it is non-blank, none if it is blank.
C7_ParseErrorAndContinue ==
    [][/\ (last'.kind = "line" /\ NotACommand(last'.line)) =>
              /\ Len(last'.resp) = 1
              /\ last'.resp[1].type = "error"
              /\ last'.resp[1].code = "parse_error"
              /\ exited' = None
              /\ cur' = cur
       /\ (last.kind = "line" /\ NotACommand(last.line) /\ read' # read) =>
              /\ Len(read') = Len(read) + 1
              /\ Len(out') = Len(out) + (IF read'[Len(read')] THEN 1 ELSE 0)
      ]_vars

\* A JSON string containing "type", read while a model is loaded.
C7_Witness ==
    /\ last.kind = "line"
    /\ last.line.shape = "string"
    /\ last.line.hasType
    /\ AnsweredError("parse_error")
    /\ cur # None
    /\ exited = None
    /\ Len(read) < MaxLines

\* C8: an ok response for shutdown is written only by a shutdown command and only
\* once the slot is empty; when a shutdown command finds a model loaded, the
\* release capability of its handle, if it has one, is invoked and the slot is
\* cleared, and both precede the writing of the ok response.
C8_UnloadBeforeShutdownOk ==
    /\ \A i \in 1..Len(last.resp) :
          (last.resp[i].type = "ok" /\ last.resp[i].command = "shutdown") =>
              IsCommand("ShutdownRequest") /\ cur = None
    /\ IsCommand("ShutdownRequest") =>
          /\ last.pre # None =>
                \E j \in 1..Len(last.fx) :
                    /\ last.fx[j].ev = "clear"
                    /\ last.fx[j].h = last.pre[1].instance.id
                    /\ last.pre[1].instance.close # "absent" =>
                          \E i \in 1..(j - 1) :
                              /\ last.fx[i].ev = "close"
                              /\ last.fx[i].h = last.pre[1].instance.id
          /\ \A w \in 1..Len(last.fx) :
                (last.fx[w].ev = "write" /\ last.fx[w].arg = "ok") =>
                    /\ ~last.fx[w].loaded
                    /\ \A i \in 1..Len(last.fx) :
                          last.fx[i].ev \in {"close", "clear"} => i < w

\* A shutdown that found a model with a release capability and was answered ok.
C8_Witness ==
    /\ IsCommand("ShutdownRequest")
    /\ last.pre # None
    /\ last.pre[1].instance.close = "returns"
    /\ AnsweredOk
    /\ last.resp[1].command = "shutdown"

\* C9: every shutdown command ends the process with success status, whatever the
\* slot holds and whatever the release capability of the handle does.
C9_ShutdownTerminates ==
    IsCommand("ShutdownRequest") => exited = Some(0)

\* C10: when a signal ends the process while a model is loaded, the release
\* capability of the handle has been invoked and the slot is empty at exit.
C10_SignalUnloads ==
    (last.kind = "signal" /\ last.pre # None) =>
        /\ cur = None
        /\ last.pre[1].instance.close # "absent" => Happened("close")

\* The transcribe call under examination has been made on a loaded model.
CallDone == call.stage = "done" /\ last.pre # None

CallReq == Decode(call.line).req

AnsweredTranscription == Len(last.resp) = 1 /\ last.resp[1].type = "transcription"

\* C11: every keyword passed to the model's transcribe is a parameter recorded
\* when the model was loaded; a request with a language, on a model whose
\* transcribe declares no language parameter, invokes transcribe without
\* language and is answered with a transcription.
C11_KwargsWithinCapabilities ==
    CallDone =>
        /\ last.pre[1].transcribe_params = call.params
        /\ PassedNames(call.kwargs) \subseteq call.params
        /\ ("language" \notin call.params /\ CallReq.language # None
                /\ NormaliseResult(call.raw).exc = None) =>
              /\ call.kwargs["language"] = None
              /\ \E i \in 1..Len(last.fx) :
                    last.fx[i].ev = "transcribe" /\ last.fx[i].arg = "returns"
              /\ AnsweredTranscription

\* A request with language "en" on a model whose transcribe declares all the
\* parameters but language: the other request values are passed.
C11_Witness ==
    /\ CallDone
    /\ call.params = AllParams \ {"language"}
    /\ call.line.language = Str("en")
    /\ call.kwargs["language"] = None
    /\ call.kwargs["chunk_duration"] = Some(30)
    /\ AnsweredTranscription

\* C12: a failure inside a best-effort sub-operation does not propagate: a
\* load_model whose precision method or attention setter raises is answered with
\* ok and leaves the new model in the slot; an unload_model or shutdown whose
\* close() raises is answered with ok.
C12_BestEffortNeverPropagates ==
    /\ IsCommand("LoadModelRequest") =>
          \A i \in 1..Len(last.fx) :
              (last.fx[i].ev \in {"precision", "set_attention_model"}
                  /\ last.fx[i].arg = "raises") =>
                  /\ AnsweredOk
                  /\ cur # None
                  /\ cur[1].instance.id = last.fx[i].h
    /\ (IsCommand("UnloadModelRequest") \/ IsCommand("ShutdownRequest")) =>
          \A i \in 1..Len(last.fx) :
              (last.fx[i].ev = "close" /\ last.fx[i].arg = "raises") => AnsweredOk

\* A transcribe result with no token that orjson cannot encode.
NoOpaqueToken(raw) ==
    \A list \in {raw.segments, raw.sentences} :
        \A i \in 1..Len(list.v) :
            \A j \in 1..Len(list.v[i].tokens.v) : list.v[i].tokens.v[j] # "opaque"

\* C13: whatever fields of the raw result and of its segments are missing or
\* None, the normaliser raises nothing and the transcribe command is answered
\* with a transcription; a result without segments gives an empty segment list.
C13_NormaliserNeverFails ==
    (CallDone /\ NoOpaqueToken(call.raw)) =>
        /\ call.norm.exc = None
        /\ call.norm.payload.text # None
        /\ (call.raw.segments.p # "val" /\ call.raw.sentences.p # "val") =>
              call.norm.payload.segments = <<>>
        /\ AnsweredTranscription

\* A line of a recognised command type that breaks a rule of its schema.
FieldRuleViolated(l) ==
    /\ l.shape = "object"
    /\ l.hasType
    /\ \/ /\ l.type = "load_model"
          /\ \/ l.local_attention_context.p = "val" /\ l.local_attention_context.v <= 0
             \/ l.precision.p = "val" /\ l.precision.v \notin Precisions
             \/ l.attention.p = "val" /\ l.attention.v \notin Attentions
             \/ l.model_id.p = "absent"
       \/ /\ l.type = "transcribe"
          /\ \/ l.audio_path.p = "absent"
             \/ l.audio_path.p = "val" /\ l.audio_path.v = <<>>

\* C14: a line of a recognised command type that breaks a field rule is answered
\* with an error of code validation_error, no ModelManager operation is invoked
\* for it, and the slot is unchanged.
C14_FieldRuleViolationsRejected ==
    (last.kind = "line" /\ FieldRuleViolated(last.line)) =>
        /\ AnsweredError("validation_error")
        /\ \A i \in 1..Len(last.fx) : last.fx[i].ev = "write"
        /\ cur = last.pre

UnloadCommand == IsCommand("UnloadModelRequest") \/ IsCommand("ShutdownRequest")

Closes == {i \in 1..Len(last.fx) : last.fx[i].ev = "close"}

\* C16: after an unload_model or a shutdown command the slot is empty; on an empty
\* slot nothing is closed or cleared; on a loaded slot close() of the loaded model
\* is called exactly once if it has one, and the slot is cleared even when close()
\* raises.
C16_UnloadEmptiesSlot ==
    UnloadCommand =>
        /\ cur = None
        /\ last.pre = None => (Closes = {} /\ ~Happened("clear"))
        /\ last.pre # None =>
              /\ Cardinality(Closes) =
                    (IF last.pre[1].instance.close = "absent" THEN 0 ELSE 1)
              /\ \A i \in Closes : last.fx[i].h = last.pre[1].instance.id
              /\ Happened("clear")

\* An unload_model or shutdown of a model whose close() raises.
C16_Witness ==
    /\ UnloadCommand
    /\ last.pre # None
    /\ \E i \in Closes : last.fx[i].arg = "raises"
    /\ cur = None

\* C17: the slot changes only by a load_model answered ok that did not reuse the
\* loaded model, by unload_model or by shutdown; status and transcribe leave it
\* as it was, and so does a load_model that is answered with an error.
C17_SlotFrame ==
    /\ cur # last.pre =>
          \/ /\ IsCommand("LoadModelRequest")
             /\ AnsweredOk
             /\ Happened("install")
             /\ ~Happened("reuse")
          \/ UnloadCommand
    /\ IsCommand("StatusRequest") => cur = last.pre
    /\ IsCommand("TranscribeRequest") => cur = last.pre
    /\ (IsCommand("LoadModelRequest") /\ ~AnsweredOk) => cur = last.pre

\* A load_model of another model that fails after from_pretrained was reached,
\* while a model is loaded.
C17_Witness ==
    /\ IsCommand("LoadModelRequest")
    /\ last.pre # None
    /\ last.pre[1].model_id # LastCmd.req.model_id
    /\ Happened("from_pretrained")
    /\ ~AnsweredOk
    /\ cur = last.pre

LoadedContext == Decode(call.load).req.local_attention_context

\* C19: local_attention_context is passed to the model's transcribe only when
\* transcribe declares it and the resolved value (the request's value if it has
\* one, else the value given at load) is positive, and what is passed is that
\* value; zero or a negative value is never passed.
C19_ContextPassedOnlyWhenPositive ==
    CallDone =>
        LET passed == call.kwargs["local_attention_context"]
            resolved == IF CallReq.local_attention_context # None
                        THEN CallReq.local_attention_context[1]
                        ELSE LoadedContext
        IN  passed # None =>
                /\ "local_attention_context" \in call.params
                /\ resolved > 0
                /\ passed[1] = resolved
                /\ passed[1] > 0

\* C20: for chunk_duration, overlap_duration and attention, when the model's
\* transcribe declares the parameter, the value passed is the request's value if
\* the request has a non-null one, and the loaded model's value otherwise.
C20_RequestValuesTakePrecedence ==
    CallDone =>
        \A k \in {"chunk_duration", "overlap_duration", "attention"} :
            k \in call.params =>
                call.kwargs[k] = (IF CallReq[k] # None THEN CallReq[k]
                                  ELSE Some(last.pre[1][k]))

\* A request with chunk_duration 0 and attention "full" and no overlap_duration,
\* on a model loaded with attention "local" and overlap_duration 5.
C20_Witness ==
    /\ CallDone
    /\ call.params = AllParams
    /\ call.line.chunk_duration = Num(0)
    /\ call.kwargs["chunk_duration"] = Some(0)
    /\ last.pre[1].chunk_duration = 60
    /\ call.line.overlap_duration = AbsentN
    /\ call.kwargs["overlap_duration"] = Some(5)
    /\ last.pre[1].attention = "local"
    /\ call.line.attention = Str("full")
    /\ call.kwargs["attention"] = Some("full")

\* The thread is inside the body of a ModelManager method.
InBody(t) == pc[t].at \in {"entered", "blocking", "leaving"}

\* C15: of the threads that call load, unload, status and transcribe of one
\* ModelManager, at most one is inside a method body at any time, and a thread
\* inside a body holds the lock from entering it to leaving it, the blocking
\* external call included; the slot never holds more than one LoadedModel.
C15_OneCallerInBody ==
    /\ \A t1, t2 \in Callers : (InBody(t1) /\ InBody(t2)) => t1 = t2
    /\ \A t \in Callers : InBody(t) => lock = t
    /\ Len(cur) <= 1

\* One thread blocks in the external calls of a load that replaces the loaded
\* model, while another waits at the lock to transcribe.
C15_Witness ==
    \E t1, t2 \in Callers :
        /\ pc[t1].at = "blocking"
        /\ pc[t1].op = "load"
        /\ pc[t2].at = "wait"
        /\ pc[t2].op = "transcribe"
        /\ lock = t1
        /\ cur # None
        /\ cur[1].model_id # pc[t1].arg

\* C21: whenever a model is loaded, its recorded chunk_duration is greater than
\* 0 and its recorded overlap_duration is at least 0.
C21_RecordedDurationsInRange ==
    cur # None =>
        /\ cur[1].chunk_duration > 0
        /\ cur[1].overlap_duration >= 0

\* The value a load_model line gives for a duration, the default when it gives
\* none.
GivenOr(f, default) == IF f.p = "val" THEN f.v ELSE default

\* C22: when the transcribe request overrides neither chunk_duration nor
\* overlap_duration and the model's transcribe declares both, the two values
\* passed are those of the load_model request that loaded the model, whatever
\* value the schema accepted, 0 included; 120 and 15 are passed only when the
\* load_model request gave no value.
C22_LoadDurationsPassedThrough ==
    (/\ CallDone
     /\ CallReq.chunk_duration = None
     /\ CallReq.overlap_duration = None
     /\ {"chunk_duration", "overlap_duration"} \subseteq call.params) =>
        /\ call.kwargs["chunk_duration"] =
              Some(GivenOr(call.load.chunk_duration, DefaultChunkDuration))
        /\ call.kwargs["overlap_duration"] =
              Some(GivenOr(call.load.overlap_duration, DefaultOverlapDuration))

====
